---- MODULE Spec2Model ----
(***************************************************************************)
(* Rate limiter of fc-pos-golang-rate-limiter: the HTTP admission filter   *)
(* (internal/middleware/ratelimit.go), the quota resolver                  *)
(* (internal/limiter/limiter.go) and the sliding-window + block strategy   *)
(* on Redis (internal/limiter/redis_strategy.go).                          *)
(*                                                                         *)
(* Time.  Instants and durations are integers counted in units of 30 s, so *)
(* that time.Minute is 2 units; WindowSeconds and BlockDurationSeconds are *)
(* configuration and are taken as multiples of the unit.  An instant of    *)
(* the model is one exact reading of the wall clock: two calls that read   *)
(* the clock without a Tick in between read the same UnixNano value.       *)
(*                                                                         *)
(* Strings.  A string is a sequence of tokens; the tokens are chosen so    *)
(* that a string has one tokenisation only, hence two strings are equal    *)
(* exactly when their sequences are.                                       *)
(***************************************************************************)
EXTENDS Integers, Sequences, FiniteSets, TLC

----------------------------------------------------------------------------
(* Bounds of the exploration *)

\* serial load
MaxCalls == 3     \* requests and resets issued in one run
MaxTime == 4      \* last clock reading explored
MaxFailures == 1  \* store commands that fail in one run
MaxResets == 1    \* resets issued in one run

\* serial load of one identifier with resets
IdemCalls == 3    \* requests issued in one run
IdemResets == 2   \* resets issued in one run
IdemTime == 2     \* last clock reading explored

\* concurrent load
NumEval == 2      \* request handlers that may be in flight at once
ConcCalls == 4    \* requests issued in one run
ConcTime == 1     \* last clock reading explored
ConcFailures == 1 \* store commands that fail in one run

(* time.Minute, in units of 30 s *)
Minute == 2

Evals == 1..NumEval

----------------------------------------------------------------------------
(* Strings *)

EmptyStr == <<>>

Concat(s, t) == s \o t

\* index of the first occurrence of token c in s, 0 when absent
RECURSIVE IndexFrom(_, _, _)
IndexFrom(s, c, i) ==
  IF i > Len(s) THEN 0
  ELSE IF s[i] = c THEN i
  ELSE IndexFrom(s, c, i + 1)

IndexOf(s, c) == IndexFrom(s, c, 1)

\* index of the last occurrence of token c in s, 0 when absent
RECURSIVE LastIndexFrom(_, _, _)
LastIndexFrom(s, c, i) ==
  IF i < 1 THEN 0
  ELSE IF s[i] = c THEN i
  ELSE LastIndexFrom(s, c, i - 1)

LastIndexOf(s, c) == LastIndexFrom(s, c, Len(s))

\* strings.Split(s, ",")[0]
FirstField(s) ==
  IF IndexOf(s, ",") = 0 THEN s ELSE SubSeq(s, 1, IndexOf(s, ",") - 1)

\* strings.TrimSpace
RECURSIVE TrimLeft(_)
TrimLeft(s) ==
  IF s # EmptyStr /\ Head(s) = " " THEN TrimLeft(Tail(s)) ELSE s

RECURSIVE TrimRight(_)
TrimRight(s) ==
  IF s # EmptyStr /\ s[Len(s)] = " "
  THEN TrimRight(SubSeq(s, 1, Len(s) - 1))
  ELSE s

TrimSpace(s) == TrimRight(TrimLeft(s))

\* net.SplitHostPort for host:port addresses: ok is FALSE when no colon
SplitHostPort(addr) ==
  IF LastIndexOf(addr, ":") = 0
  THEN [ok |-> FALSE, host |-> EmptyStr]
  ELSE [ok |-> TRUE, host |-> SubSeq(addr, 1, LastIndexOf(addr, ":") - 1)]

----------------------------------------------------------------------------
(* HTTP requests offered to the filter *)

Req(apiKey, xff, xri, remote) ==
  [apiKey |-> apiKey, xff |-> xff, xri |-> xri, remoteAddr |-> remote]

PeerA == <<"a", ":", "9">>

ReqIP == Req(EmptyStr, EmptyStr, EmptyStr, PeerA)              \* IP a
ReqFwd == Req(EmptyStr, <<"a", ":block">>, EmptyStr, PeerA)    \* IP a:block
ReqToken == Req(<<"t">>, EmptyStr, EmptyStr, PeerA)            \* token t
ReqUnknown == Req(<<"a">>, EmptyStr, EmptyStr, PeerA)          \* token a

Requests == { ReqIP, ReqFwd, ReqToken, ReqUnknown }

\* the clients of one run under serial load, and under concurrent load
Traffic == { {ReqIP, ReqFwd}, {ReqIP, ReqToken}, {ReqIP, ReqUnknown} }

ConcTraffic == { {ReqIP}, {ReqToken} }

\* requests that differ in the headers and the peer address extractIP reads
XffValues ==
  { EmptyStr, <<"b">>, <<" ", "b", " ">>, <<"b", ",", "c">>,
    <<" ", "b", ",", " ", "c">>, <<",", "c">>, <<" ", ",", "c">>, <<" ">> }

HeaderRequests ==
  { Req(EmptyStr, xff, xri, remote) :
      xff \in XffValues, xri \in {EmptyStr, <<"d">>}, remote \in {PeerA, <<"a">>} }

\* variant: X-Real-IP is read before X-Forwarded-For
extractIP_RealIPFirst(r) ==
  IF r.xri # EmptyStr THEN r.xri
  ELSE IF r.xff # EmptyStr /\ TrimSpace(FirstField(r.xff)) # EmptyStr
  THEN TrimSpace(FirstField(r.xff))
  ELSE IF SplitHostPort(r.remoteAddr).ok
       THEN SplitHostPort(r.remoteAddr).host
       ELSE r.remoteAddr

\* extractIP
extractIP(r) ==
  IF r.xff # EmptyStr /\ TrimSpace(FirstField(r.xff)) # EmptyStr
  THEN TrimSpace(FirstField(r.xff))
  ELSE IF r.xri # EmptyStr THEN r.xri
  ELSE IF SplitHostPort(r.remoteAddr).ok
       THEN SplitHostPort(r.remoteAddr).host
       ELSE r.remoteAddr

----------------------------------------------------------------------------
(* Configuration: config.RateLimitConfig, config.TokenConfig, TokenConfigs *)

Profile(l, w, b) == [limit |-> l, window |-> w, block |-> b]

\* one default IP profile and the token profiles, fixed at construction
Configs ==
  { [ip |-> Profile(2, 2, 3), tokens |-> [x \in {<<"t">>} |-> Profile(1, 3, 1)]],
    [ip |-> Profile(1, 1, 2), tokens |-> [x \in {<<"t">>} |-> Profile(2, 1, 0)]],
    [ip |-> Profile(3, 2, 1), tokens |-> [x \in {<<"t">>} |-> Profile(1, 2, 0)]] }

\* TokenConfigs.GetTokenConfig
GetTokenConfig(tc, token) ==
  IF token \in DOMAIN tc
  THEN [exists |-> TRUE, config |-> tc[token]]
  ELSE [exists |-> FALSE, config |-> Profile(0, 0, 0)]

----------------------------------------------------------------------------
(* Storage keys *)

\* variant: the prefixes of the two classes exchanged
createKey_Swapped(identifier, isToken) ==
  IF isToken THEN Concat(<<"ip:">>, identifier)
  ELSE Concat(<<"token:">>, identifier)

\* RateLimiter.createKey
createKey(identifier, isToken) ==
  IF isToken THEN Concat(<<"token:">>, identifier)
  ELSE Concat(<<"ip:">>, identifier)

\* blockKey := key + ":block"
blockKeyOf(key) == Concat(key, <<":block">>)

\* the identifier and class the filter derives from a request
identifierOf(r) == IF r.apiKey # EmptyStr THEN r.apiKey ELSE extractIP(r)

\* variant: every request is of class IP
isTokenOf_Never(r) == FALSE

isTokenOf(r) == r.apiKey # EmptyStr

Pairs == { <<identifierOf(r), isTokenOf(r)>> : r \in Requests }

KeysOf(p) == { createKey(p[1], p[2]), blockKeyOf(createKey(p[1], p[2])) }

AllKeys == UNION { KeysOf(p) : p \in Pairs }

HeaderKeys ==
  UNION { KeysOf(<<identifierOf(r), isTokenOf(r)>>) : r \in HeaderRequests }

----------------------------------------------------------------------------
(* The Redis store: every key is absent, a string or a sorted set, and may *)
(* carry an expiry instant.  A sorted set is the set of its scores: member *)
(* and score are both now.UnixNano(), so equal instants are one member.    *)

NoExp == -1

Absent == [type |-> "none", members |-> {}, exp |-> NoExp]

StrVal(e) == [type |-> "string", members |-> {}, exp |-> e]

\* an instant with a nanosecond offset below the unit: go-redis returns the
\* replies -1 and -2 of TTL as time.Duration(-1) and time.Duration(-2)
At(t, ns) == [t |-> t, ns |-> ns]

TimeLeq(a, b) == a.t < b.t \/ (a.t = b.t /\ a.ns <= b.ns)

\* EXISTS key
Exists(s, k) == IF s[k].type # "none" THEN 1 ELSE 0

\* TTL key, read at store time t
TTL(s, k, t) ==
  IF s[k].type = "none" THEN At(0, -2)
  ELSE IF s[k].exp = NoExp THEN At(0, -1)
  ELSE At(s[k].exp - t, 0)

\* the sorted-set commands fail with WRONGTYPE on a string key
WrongType(s, k) == s[k].type = "string"

\* variant: the upper bound of the pruned range is exclusive
ZRemRangeByScore_Exclusive(s, k, max) ==
  IF s[k].type # "zset" THEN s
  ELSE IF { m \in s[k].members : ~(0 <= m /\ m < max) } = {}
       THEN [s EXCEPT ![k] = Absent]
       ELSE [s EXCEPT ![k].members = { m \in s[k].members : ~(0 <= m /\ m < max) }]

\* ZREMRANGEBYSCORE key 0 max: an emptied sorted set is deleted
ZRemRangeByScore(s, k, max) ==
  IF s[k].type # "zset" THEN s
  ELSE IF { m \in s[k].members : ~(0 <= m /\ m <= max) } = {}
       THEN [s EXCEPT ![k] = Absent]
       ELSE [s EXCEPT ![k].members = { m \in s[k].members : ~(0 <= m /\ m <= max) }]

\* variant: the count leaves out one entry
ZCard_OneLess(s, k) ==
  IF s[k].type = "zset" /\ s[k].members # {}
  THEN Cardinality(s[k].members) - 1 ELSE 0

\* ZCARD key
ZCard(s, k) == IF s[k].type = "zset" THEN Cardinality(s[k].members) ELSE 0

\* ZADD key score member, with member = score: a new key has no expiry
ZAdd(s, k, score) ==
  IF s[k].type = "zset"
  THEN [s EXCEPT ![k].members = s[k].members \cup {score}]
  ELSE [s EXCEPT ![k] = [type |-> "zset", members |-> {score}, exp |-> NoExp]]

\* EXPIRE key d at store time t: no effect on an absent key
Expire(s, k, d, t) ==
  IF s[k].type = "none" THEN s
  ELSE IF d <= 0 THEN [s EXCEPT ![k] = Absent]
  ELSE [s EXCEPT ![k].exp = t + d]

\* variant: the expiration is one unit short
Set_Short(s, k, d, t) ==
  [s EXCEPT ![k] = StrVal(IF d > 0 THEN t + d - 1 ELSE NoExp)]

\* SET key "1" with expiration d at store time t: go-redis sends no EX/PX
\* argument when the expiration is 0, and the key then never expires
Set(s, k, d, t) ==
  [s EXCEPT ![k] = StrVal(IF d > 0 THEN t + d ELSE NoExp)]

\* ZRANGE key 0 0 WITHSCORES: the smallest score, none on an empty set
Min(S) == CHOOSE m \in S : \A n \in S : m <= n

ZRangeFirst(s, k) ==
  IF s[k].type = "zset" /\ s[k].members # {}
  THEN [len |-> 1, score |-> Min(s[k].members)]
  ELSE [len |-> 0, score |-> 0]

\* variant: only a string key is deleted
Del_StringOnly(s, k) ==
  IF s[k].type = "string" THEN [s EXCEPT ![k] = Absent] ELSE s

\* DEL key
Del(s, k) == [s EXCEPT ![k] = Absent]

\* expiry by the store once the clock reads t
Reap(s, t) ==
  [k \in DOMAIN s |->
     IF s[k].type # "none" /\ s[k].exp # NoExp /\ s[k].exp <= t
     THEN Absent ELSE s[k]]

----------------------------------------------------------------------------
(* State *)

VARIABLES
  cfg,      \* the configuration the RateLimiter was constructed with
  clock,    \* the wall clock, read by time.Now() and by the store
  store,    \* the Redis keyspace
  ev,       \* per request handler: where it stands inside the filter
  hist,     \* completed operations in order of completion, for the claims
  calls,    \* operations issued so far
  lim       \* the load of the run: its clients and its bounds

vars == <<cfg, clock, store, ev, hist, calls, lim>>

Idle == [pc |-> "idle"]

AllIdle == \A e \in Evals : ev[e].pc = "idle"

\* variant: the IP profile whatever the class
resolveProfile_IPOnly(c, identifier, isToken) == c.ip

\* variant: the looked-up config is used also when the lookup missed
resolveProfile_NoFallback(c, identifier, isToken) ==
  IF isToken THEN GetTokenConfig(c.tokens, identifier).config ELSE c.ip

\* RateLimiter.Check, profile resolution
resolveProfile(c, identifier, isToken) ==
  IF isToken
  THEN IF ~GetTokenConfig(c.tokens, identifier).exists
       THEN c.ip
       ELSE GetTokenConfig(c.tokens, identifier).config
  ELSE c.ip

\* members of a window key that a call reading the clock at t still counts
LiveMembers(s, k, t, w) ==
  IF s[k].type = "zset" THEN { m \in s[k].members : m > t - w } ELSE {}

\* the call frame of one request: filter, Check and Allow up to line 24
Frame(r, c, t, s) ==
  [ req |-> r,
    ip |-> extractIP(r),
    identifier |-> identifierOf(r),
    isToken |-> isTokenOf(r),
    limit |-> resolveProfile(c, identifierOf(r), isTokenOf(r)).limit,
    window |-> resolveProfile(c, identifierOf(r), isTokenOf(r)).window,
    block |-> resolveProfile(c, identifierOf(r), isTokenOf(r)).block,
    key |-> createKey(identifierOf(r), isTokenOf(r)),
    now |-> t,
    count |-> 0,
    perr |-> FALSE,
    wrote |-> {},
    trips |-> 0,
    cmds |-> <<>>,
    dropped |-> FALSE,
    blockAtAdd |-> FALSE,
    winAtEntry |-> s[createKey(identifierOf(r), isTokenOf(r))],
    winAtExpire |-> Absent,
    expireAt |-> 0,
    winAtReturn |-> Absent,
    blockAtReturn |-> Absent,
    setAt |-> 0,
    blockAtEntry |->
      s[blockKeyOf(createKey(identifierOf(r), isTokenOf(r)))].type # "none",
    liveAtEntry |->
      Cardinality(LiveMembers(s, createKey(identifierOf(r), isTokenOf(r)), t,
        resolveProfile(c, identifierOf(r), isTokenOf(r)).window)) ]

\* time.Time.Format(time.RFC3339) keeps whole seconds, 30 to the unit
FormatRFC3339(x) == IF x.ns < 0 THEN x.t * 30 - 1 ELSE x.t * 30

NoHeaders == [set |-> FALSE]

\* what Allow returned: a verdict, or an error
Verdict(allowed, remaining, reset) ==
  [err |-> FALSE, allowed |-> allowed, remaining |-> remaining, reset |-> reset]

Failure == [err |-> TRUE, allowed |-> FALSE, remaining |-> 0, reset |-> At(0, 0)]

\* variant: an error of Allow becomes an admitted result
CheckResult_Swallow(f, v) ==
  [ err |-> FALSE, Allowed |-> IF v.err THEN TRUE ELSE v.allowed,
    Remaining |-> v.remaining, ResetTime |-> v.reset, Limit |-> f.limit,
    Identifier |-> f.identifier, IsToken |-> f.isToken ]

\* RateLimiter.Check after Allow: the CheckResult, or the nil result with
\* the error that wraps the error of Allow
CheckResult(f, v) ==
  IF v.err THEN [err |-> TRUE, wraps |-> v]
  ELSE [ err |-> FALSE, Allowed |-> v.allowed, Remaining |-> v.remaining,
         ResetTime |-> v.reset, Limit |-> f.limit,
         Identifier |-> f.identifier, IsToken |-> f.isToken ]

\* variant: an error of Check is answered with 500
Respond_FailClosed(res) ==
  IF res.err
  THEN [status |-> 500, headers |-> NoHeaders, next |-> 0]
  ELSE [ status |-> IF res.Allowed THEN 0 ELSE 429,
         headers |-> [ set |-> TRUE, Limit |-> res.Limit,
                       Remaining |-> res.Remaining,
                       Reset |-> FormatRFC3339(res.ResetTime) ],
         next |-> IF res.Allowed THEN 1 ELSE 0 ]

\* variant: no return after the 429
Respond_NoReturn(res) ==
  IF res.err
  THEN [status |-> 0, headers |-> NoHeaders, next |-> 1]
  ELSE [ status |-> IF res.Allowed THEN 0 ELSE 429,
         headers |-> [ set |-> TRUE, Limit |-> res.Limit,
                       Remaining |-> res.Remaining,
                       Reset |-> FormatRFC3339(res.ResetTime) ],
         next |-> 1 ]

\* RateLimitMiddleware after Check, with response.WriteRateLimitError: the
\* status the filter writes itself (0 when it writes none and leaves the
\* response to the downstream handler), the X-RateLimit-* headers, and the
\* number of calls of next.ServeHTTP
Respond(res) ==
  IF res.err
  THEN [status |-> 0, headers |-> NoHeaders, next |-> 1]
  ELSE IF ~res.Allowed
  THEN [ status |-> 429,
         headers |-> [ set |-> TRUE, Limit |-> res.Limit,
                       Remaining |-> res.Remaining,
                       Reset |-> FormatRFC3339(res.ResetTime) ],
         next |-> 0 ]
  ELSE [ status |-> 0,
         headers |-> [ set |-> TRUE, Limit |-> res.Limit,
                       Remaining |-> res.Remaining,
                       Reset |-> FormatRFC3339(res.ResetTime) ],
         next |-> 1 ]

\* the record of a completed request
Entry(f, v, path) ==
  [ op |-> "check", frame |-> f, key |-> f.key, now |-> f.now,
    path |-> path, verdict |-> v,
    result |-> CheckResult(f, v),
    resp |-> Respond(CheckResult(f, v)) ]

\* the handler returns: its outcome is recorded and the handler is free
Return(e, f, v, path) ==
  /\ ev' = [ev EXCEPT ![e] = Idle]
  /\ hist' = Append(hist, Entry(f, v, path))

\* the handler goes on to its next store command
Goto(e, f, pc) ==
  /\ ev' = [ev EXCEPT ![e] = [pc |-> pc, f |-> f]]
  /\ hist' = hist

Fresh ==
  /\ cfg \in Configs
  /\ clock = 0
  /\ store = [k \in AllKeys |-> Absent]
  /\ ev = [e \in Evals |-> Idle]
  /\ hist = <<>>
  /\ calls = 0

\* concurrent load
Init ==
  /\ Fresh
  /\ \E o \in ConcTraffic :
       lim = [ offered |-> o, calls |-> ConcCalls, ops |-> ConcCalls,
               time |-> ConcTime, failures |-> ConcFailures, resets |-> 0 ]

\* serial load
InitSerial ==
  /\ Fresh
  /\ \E o \in Traffic :
       lim = [ offered |-> o, calls |-> MaxCalls, ops |-> MaxCalls,
               time |-> MaxTime, failures |-> MaxFailures, resets |-> MaxResets ]

\* serial load of one identifier with resets
InitReset ==
  /\ Fresh
  /\ \E o \in ConcTraffic :
       lim = [ offered |-> o, calls |-> IdemCalls, ops |-> IdemCalls + IdemResets,
               time |-> IdemTime, failures |-> 0, resets |-> IdemResets ]

\* one request through the filter, with any of the headers
InitFilter ==
  /\ cfg \in Configs
  /\ clock = 0
  /\ store = [k \in HeaderKeys |-> Absent]
  /\ ev = [e \in Evals |-> Idle]
  /\ hist = <<>>
  /\ calls = 0
  /\ \E r \in HeaderRequests :
       lim = [ offered |-> {r}, calls |-> 1, ops |-> 1, time |-> 0,
               failures |-> 0, resets |-> 0 ]

----------------------------------------------------------------------------
(* Operations.  A request handler is cut at its store commands: one action *)
(* is the code up to and including one command, so that the commands of    *)
(* handlers in flight interleave.  The commands of a pipeline are sent in  *)
(* one batch but are no transaction; each is a step of its own.  Any       *)
(* command may fail (connection, deadline); WRONGTYPE is the reply of a    *)
(* sorted-set command to a string key, and Exec reports the first error of *)
(* the batch after all of its commands ran.                                *)

\* now.Add(d) for a TTL reply d
AddTTL(t, d) == At(t + d.t, d.ns)

\* variant: no clamp at 0
Remaining_NoClamp(n) == n

\* remaining, clamped at 0
Remaining(n) == IF n < 0 THEN 0 ELSE n

\* a store command fails: Allow returns the error
CanFail ==
  Cardinality({ i \in 1..Len(hist) :
                  IF hist[i].op = "check" THEN hist[i].path = "error"
                  ELSE hist[i].err }) < lim.failures

\* variant: every command is a round-trip of its own
Trips_Unpipelined(pc) == 1

\* the round-trips a store command begins: the commands of a pipeline go
\* out in one Exec, counted at its first command
Trips(pc) ==
  IF pc \in {"exists", "ttl", "zrem", "set", "zadd", "zrange"} THEN 1 ELSE 0

\* the key the command at pc addresses: EXISTS, TTL and SET the block key,
\* the sorted-set commands and EXPIRE the window key
KeyAt(f, pc) ==
  IF pc \in {"exists", "ttl", "set"} THEN blockKeyOf(f.key) ELSE f.key

\* the frame with the command at pc sent: its round-trip counted, the
\* command and its key noted
Sent(f, pc) ==
  [f EXCEPT !.trips = f.trips + Trips(pc),
            !.cmds = Append(f.cmds, [cmd |-> pc, key |-> KeyAt(f, pc)])]

\* the frame with the two keys of the call as the store s holds them when
\* the call returns
Seen(f, s) ==
  [f EXCEPT !.winAtReturn = s[f.key], !.blockAtReturn = s[blockKeyOf(f.key)]]

Fails(e, f) == CanFail /\ Return(e, Seen(f, store), Failure, "error")

\* resets issued so far
ResetsIssued ==
  Cardinality({ i \in 1..Len(hist) : hist[i].op = "reset" })
    + Cardinality({ e \in Evals : ev[e].pc = "del" })

CanReset == ResetsIssued < lim.resets

\* RateLimitMiddleware -> Check -> Allow -> checkBlockStatus: EXISTS
HandleRequest(e, r) ==
  /\ r \in lim.offered
  /\ ev[e].pc = "idle"
  /\ \A d \in Evals : d < e => ev[d].pc # "idle"
  /\ calls - ResetsIssued < lim.calls
  /\ calls < lim.ops
  /\ calls' = calls + 1
  /\ LET f == Sent(Frame(r, cfg, clock, store), "exists") IN
       \/ Fails(e, f)
       \/ /\ Exists(store, blockKeyOf(f.key)) = 0
          /\ Goto(e, f, "zrem")
       \/ /\ Exists(store, blockKeyOf(f.key)) # 0
          /\ Goto(e, f, "ttl")
  /\ UNCHANGED <<cfg, clock, store, lim>>

\* variant: the blocked path writes the block key again
BlockTTL_Rewrite(e) ==
  /\ ev[e].pc = "ttl"
  /\ LET f == Sent(ev[e].f, "ttl") IN
       \/ /\ Fails(e, f)
          /\ store' = store
       \/ /\ store' = Set(store, blockKeyOf(f.key), f.block, clock)
          /\ Return(e, Seen(f, Set(store, blockKeyOf(f.key), f.block, clock)),
               Verdict(FALSE, 0, AddTTL(f.now, TTL(store, blockKeyOf(f.key), clock))),
               "blocked")
  /\ UNCHANGED <<cfg, clock, calls, lim>>

\* checkBlockStatus: TTL of the block key, then the blocked verdict
BlockTTL(e) ==
  /\ ev[e].pc = "ttl"
  /\ LET f == Sent(ev[e].f, "ttl") IN
       \/ Fails(e, f)
       \/ Return(e, Seen(f, store),
            Verdict(FALSE, 0, AddTTL(f.now, TTL(store, blockKeyOf(f.key), clock))),
            "blocked")
  /\ UNCHANGED <<cfg, clock, store, calls, lim>>

\* first pipeline, ZREMRANGEBYSCORE key 0 windowStart
PruneWindow(e) ==
  /\ ev[e].pc = "zrem"
  /\ LET f == Sent(ev[e].f, "zrem") IN
       \/ /\ Fails(e, f)
          /\ store' = store
       \/ /\ WrongType(store, f.key)
          /\ Goto(e, [f EXCEPT !.perr = TRUE], "zcard")
          /\ store' = store
       \/ /\ ~WrongType(store, f.key)
          /\ Goto(e, [f EXCEPT !.wrote = f.wrote \cup {"zrem"}], "zcard")
          /\ store' = ZRemRangeByScore(store, f.key, f.now - f.window)
  /\ UNCHANGED <<cfg, clock, calls, lim>>

\* first pipeline, ZCARD key, and the limit test
CountWindow(e) ==
  /\ ev[e].pc = "zcard"
  /\ LET f == Sent(ev[e].f, "zcard") IN
       \/ Fails(e, f)
       \/ /\ f.perr \/ WrongType(store, f.key)
          /\ Return(e, Seen(f, store), Failure, "wrongtype")
       \/ /\ ~f.perr /\ ~WrongType(store, f.key)
          /\ IF ZCard(store, f.key) < f.limit
             THEN Goto(e, [f EXCEPT !.count = ZCard(store, f.key)], "zadd")
             ELSE Goto(e, [f EXCEPT !.count = ZCard(store, f.key)], "set")
  /\ UNCHANGED <<cfg, clock, store, calls, lim>>

\* variant: the denied call records its request in the window as well
SetBlock_Adds(e) ==
  /\ ev[e].pc = "set"
  /\ LET f == Sent(Sent(ev[e].f, "set"), "zadd")
         s == ZAdd(Set(store, blockKeyOf(f.key), f.block, clock), f.key, f.now)
     IN
       \/ /\ Fails(e, f)
          /\ store' = store
       \/ /\ ~WrongType(store, f.key)
          /\ store' = s
          /\ Return(e, Seen([f EXCEPT !.wrote = f.wrote \cup {"set", "zadd"},
                                      !.setAt = clock], s),
               Verdict(FALSE, Remaining(f.limit - f.count), At(f.now + f.block, 0)),
               "limit")
  /\ UNCHANGED <<cfg, clock, calls, lim>>

\* over the limit: SET key:block "1" blockDuration, then the denied verdict
SetBlock(e) ==
  /\ ev[e].pc = "set"
  /\ LET f == Sent(ev[e].f, "set") IN
       \/ /\ Fails(e, f)
          /\ store' = store
       \/ /\ store' = Set(store, blockKeyOf(f.key), f.block, clock)
          /\ Return(e, Seen([f EXCEPT !.wrote = f.wrote \cup {"set"},
                                      !.setAt = clock],
                            Set(store, blockKeyOf(f.key), f.block, clock)),
               Verdict(FALSE, Remaining(f.limit - f.count), At(f.now + f.block, 0)),
               "limit")
  /\ UNCHANGED <<cfg, clock, calls, lim>>

\* second pipeline, ZADD key now now
AddRequest(e) ==
  /\ ev[e].pc = "zadd"
  /\ LET f == Sent(ev[e].f, "zadd") IN
       \/ /\ Fails(e, f)
          /\ store' = store
       \/ /\ WrongType(store, f.key)
          /\ Goto(e, [f EXCEPT !.perr = TRUE], "expire")
          /\ store' = store
       \/ /\ ~WrongType(store, f.key)
          /\ Goto(e, [f EXCEPT !.wrote = f.wrote \cup {"zadd"},
                               !.blockAtAdd = Exists(store, blockKeyOf(f.key)) # 0],
                  "expire")
          /\ store' = ZAdd(store, f.key, f.now)
  /\ UNCHANGED <<cfg, clock, calls, lim>>

\* second pipeline, EXPIRE key window+time.Minute; with an empty window
\* before the add, the admitted verdict
ExpireWindow(e) ==
  /\ ev[e].pc = "expire"
  /\ LET f == Sent(ev[e].f, "expire")
         s == Expire(store, f.key, f.window + Minute, clock)
         g == [f EXCEPT !.wrote = f.wrote \cup {"expire"},
                        !.winAtExpire = s[f.key], !.expireAt = clock]
     IN
       \/ /\ Fails(e, f)
          /\ store' = store
       \/ /\ store' = s
          /\ IF f.perr
             THEN Return(e, Seen(f, s), Failure, "wrongtype")
             ELSE IF f.count > 0
             THEN Goto(e, g, "zrange")
             ELSE Return(e, Seen(g, s),
                    Verdict(TRUE, Remaining(f.limit - f.count - 1),
                            At(f.now + f.window, 0)),
                    "admit")
  /\ UNCHANGED <<cfg, clock, calls, lim>>

\* ZRANGE key 0 0 WITHSCORES: its error is dropped, the reset time is then
\* now + window; then the admitted verdict
OldestEntry(e) ==
  /\ ev[e].pc = "zrange"
  /\ LET f == Sent(ev[e].f, "zrange") IN
       \/ /\ CanFail \/ WrongType(store, f.key)
          /\ Return(e, Seen([f EXCEPT !.dropped = TRUE], store),
               Verdict(TRUE, Remaining(f.limit - f.count - 1), At(f.now + f.window, 0)),
               "admit")
       \/ /\ ~WrongType(store, f.key)
          /\ ZRangeFirst(store, f.key).len > 0
          /\ Return(e, Seen(f, store),
               Verdict(TRUE, Remaining(f.limit - f.count - 1),
                       At(ZRangeFirst(store, f.key).score + f.window, 0)),
               "admit")
       \/ /\ ~WrongType(store, f.key)
          /\ ZRangeFirst(store, f.key).len = 0
          /\ Return(e, Seen(f, store),
               Verdict(TRUE, Remaining(f.limit - f.count - 1), At(f.now + f.window, 0)),
               "admit")
  /\ UNCHANGED <<cfg, clock, store, calls, lim>>

\* the keys of pair p that exist in store s
KeysLeft(s, p) == { k \in KeysOf(p) : s[k].type # "none" }

\* the record of a completed Reset: the keys of the pair found before it and
\* left after it
ResetEntry(p, failed, had, left) ==
  [ op |-> "reset", key |-> createKey(p[1], p[2]), pair |-> p, now |-> clock,
    err |-> failed, had |-> had, left |-> left ]

\* RateLimiter.Reset -> RedisStrategy.Reset: DEL key
ResetWindow(e, p) ==
  /\ p \in { <<identifierOf(r), isTokenOf(r)>> : r \in lim.offered }
  /\ ev[e].pc = "idle"
  /\ calls < lim.ops
  /\ CanReset
  /\ calls' = calls + 1
  /\ \/ /\ CanFail
        /\ ev' = [ev EXCEPT ![e] = Idle]
        /\ hist' = Append(hist, ResetEntry(p, TRUE, KeysLeft(store, p), KeysLeft(store, p)))
        /\ store' = store
     \/ /\ ev' = [ev EXCEPT ![e] = [pc |-> "del", pair |-> p, had |-> KeysLeft(store, p)]]
        /\ hist' = hist
        /\ store' = Del(store, createKey(p[1], p[2]))
  /\ UNCHANGED <<cfg, clock, lim>>

\* RedisStrategy.Reset: DEL key:block
ResetBlock(e) ==
  /\ ev[e].pc = "del"
  /\ ev' = [ev EXCEPT ![e] = Idle]
  /\ \/ /\ CanFail
        /\ hist' = Append(hist, ResetEntry(ev[e].pair, TRUE, ev[e].had,
                                            KeysLeft(store, ev[e].pair)))
        /\ store' = store
     \/ /\ store' = Del(store, blockKeyOf(createKey(ev[e].pair[1], ev[e].pair[2])))
        /\ hist' = Append(hist, ResetEntry(ev[e].pair, FALSE, ev[e].had,
                                            KeysLeft(store', ev[e].pair)))
  /\ UNCHANGED <<cfg, clock, calls, lim>>

\* the clock advances; the store drops the keys whose expiry has come.  A
\* run begins at the instant of its first operation
Tick ==
  /\ calls > 0
  /\ clock < lim.time
  /\ clock' = clock + 1
  /\ store' = Reap(store, clock + 1)
  /\ UNCHANGED <<cfg, ev, hist, calls, lim>>

Step(e) ==
  \/ BlockTTL(e)
  \/ PruneWindow(e)
  \/ CountWindow(e)
  \/ SetBlock(e)
  \/ AddRequest(e)
  \/ ExpireWindow(e)
  \/ OldestEntry(e)

\* the filter under concurrent load: the handlers interleave at the store
Next ==
  \/ \E e \in Evals, r \in Requests : HandleRequest(e, r)
  \/ \E e \in Evals : Step(e)
  \/ Tick

Spec == Init /\ [][Next]_vars

\* serial load: an operation begins only when none is in flight, and it
\* completes before the clock reads a new instant
NextSerial ==
  \/ AllIdle /\ \E r \in Requests : HandleRequest(1, r)
  \/ AllIdle /\ \E p \in Pairs : ResetWindow(1, p)
  \/ Step(1)
  \/ ResetBlock(1)
  \/ AllIdle /\ Tick

SpecSerial == InitSerial /\ [][NextSerial]_vars

SpecReset == InitReset /\ [][NextSerial]_vars

\* one request into an empty store
NextFilter ==
  \/ \E r \in HeaderRequests : HandleRequest(1, r)
  \/ PruneWindow(1)
  \/ CountWindow(1)
  \/ AddRequest(1)
  \/ ExpireWindow(1)

SpecFilter == InitFilter /\ [][NextFilter]_vars

----------------------------------------------------------------------------
(* Reading the record of completed operations *)

Done == 1..Len(hist)

IsCheck(i) == hist[i].op = "check"

Failed(i) == IF IsCheck(i) THEN hist[i].verdict.err ELSE hist[i].err

Admitted(i) == IsCheck(i) /\ ~hist[i].verdict.err /\ hist[i].verdict.allowed

Denied(i) == IsCheck(i) /\ ~hist[i].verdict.err /\ ~hist[i].verdict.allowed

\* the run so far is Allow calls of one identifier, none of which failed
OneKeyLoad == \A i, j \in Done : IsCheck(i) /\ ~Failed(i) /\ hist[i].key = hist[j].key

\* the admitted requests of key k whose instants lie in (lo, hi]
AdmittedIn(k, lo, hi) ==
  { j \in Done : Admitted(j) /\ hist[j].key = k
                   /\ lo < hist[j].now /\ hist[j].now <= hi }

----------------------------------------------------------------------------
(* C1: in a serial sequence of Allow calls of one identifier without store *)
(* errors, the admitted requests whose instants lie within one window      *)
(* (now - window, now] number at most limit.                               *)
C1_SerialAdmissionBound ==
  OneKeyLoad =>
    \A i \in Done :
      Admitted(i) =>
        Cardinality(AdmittedIn(hist[i].key,
                               hist[i].now - hist[i].frame.window,
                               hist[i].now)) <= hist[i].frame.limit

----------------------------------------------------------------------------
(* C2: from an empty store, in a serial sequence of Allow calls of one     *)
(* identifier that stays inside one window, the first limit calls are      *)
(* admitted and call limit + 1 is denied at the limit test and writes the  *)
(* block key.                                                              *)
C2_FirstLimitThenDenied ==
  OneKeyLoad =>
    \A n \in Done :
      hist[n].now - hist[1].now < hist[1].frame.window =>
        /\ n <= hist[1].frame.limit => Admitted(n)
        /\ n = hist[1].frame.limit + 1 =>
             Denied(n) /\ hist[n].path = "limit" /\ "set" \in hist[n].frame.wrote

----------------------------------------------------------------------------
(* C3: under serial load, once a call was denied at the limit test at      *)
(* instant t and wrote the block key with a TTL of penalty, every later    *)
(* call of the identifier that begins before t + penalty, with no Reset in *)
(* between, is denied, whatever has aged out of the window.                *)

\* call j wrote the block key and call i comes while its TTL runs
UnderPenalty(j, i) ==
  /\ j < i
  /\ IsCheck(j) /\ IsCheck(i)
  /\ hist[j].key = hist[i].key
  /\ hist[j].path = "limit"
  /\ hist[i].now < hist[j].now + hist[j].frame.block
  /\ \A m \in Done : (j < m /\ m < i) => hist[m].op # "reset"

C3_PenaltyDominates ==
  \A i, j \in Done :
    (UnderPenalty(j, i) /\ hist[i].path # "error") => Denied(i)

\* a call is denied under penalty although its window has fully aged out
C3_Witness ==
  \E i, j \in Done :
    /\ UnderPenalty(j, i)
    /\ Denied(i)
    /\ hist[i].frame.window < hist[i].frame.block
    /\ hist[i].frame.liveAtEntry = 0
    /\ \E a \in Done : a < j /\ Admitted(a) /\ hist[a].key = hist[i].key

----------------------------------------------------------------------------
(* C4: under serial load, a call of a penalised identifier that finds the  *)
(* block key gone and every window entry older than the window is admitted *)
(* with remaining = limit - 1.                                             *)

Recovered(i) ==
  /\ IsCheck(i)
  /\ ~Failed(i)
  /\ ~hist[i].frame.blockAtEntry
  /\ hist[i].frame.liveAtEntry = 0
  /\ \E j \in Done : j < i /\ IsCheck(j) /\ hist[j].key = hist[i].key
                       /\ hist[j].path = "limit"

C4_Recovery ==
  \A i \in Done :
    Recovered(i) =>
      Admitted(i) /\ hist[i].verdict.remaining = hist[i].frame.limit - 1

C4_Witness == \E i \in Done : Recovered(i) /\ Admitted(i)

----------------------------------------------------------------------------
(* C5: with NumEval handlers running Allow concurrently on one identifier  *)
(* and no store errors, the admitted requests whose instants lie within    *)
(* one window number at most limit + NumEval - 1.                          *)
C5_OvershootBound ==
  OneKeyLoad =>
    \A i \in Done :
      Admitted(i) =>
        Cardinality(AdmittedIn(hist[i].key,
                               hist[i].now - hist[i].frame.window,
                               hist[i].now)) <= hist[i].frame.limit + NumEval - 1

----------------------------------------------------------------------------
(* C6: isolation.  The verdicts of one (identifier, class) pair do not     *)
(* depend on the operations of the other pairs; in particular, as long as  *)
(* no operation has failed, the first request of a pair gets the verdict   *)
(* of an untouched identifier: admitted, with remaining = limit - 1 and    *)
(* reset_at = now + window.                                                *)
C6_Isolation ==
  \A i \in Done :
    ( /\ IsCheck(i)
      /\ \A j \in Done : j <= i => ~(IsCheck(j) /\ hist[j].path = "error")
      /\ \A j \in Done : j < i => hist[j].key # hist[i].key /\ ~Failed(j) )
    => /\ Admitted(i)
       /\ hist[i].verdict.remaining = hist[i].frame.limit - 1
       /\ hist[i].verdict.reset = At(hist[i].now + hist[i].frame.window, 0)

----------------------------------------------------------------------------
(* C7: a request with a non-empty API_KEY header is evaluated on the token *)
(* path, identifier = header value, whatever its client IP; when the token *)
(* is configured, limit, window and penalty of the evaluation and the      *)
(* Limit of the verdict are the token profile's.                           *)
C7_TokenPrecedence ==
  \A i \in Done :
    (IsCheck(i) /\ hist[i].frame.req.apiKey # EmptyStr) =>
      /\ hist[i].frame.identifier = hist[i].frame.req.apiKey
      /\ hist[i].frame.isToken
      /\ hist[i].key = <<"token:">> \o hist[i].frame.req.apiKey
      /\ hist[i].frame.req.apiKey \in DOMAIN cfg.tokens =>
           /\ hist[i].frame.limit = cfg.tokens[hist[i].frame.req.apiKey].limit
           /\ hist[i].frame.window = cfg.tokens[hist[i].frame.req.apiKey].window
           /\ hist[i].frame.block = cfg.tokens[hist[i].frame.req.apiKey].block
           /\ ~Failed(i) =>
                hist[i].result.Limit = cfg.tokens[hist[i].frame.req.apiKey].limit

\* a configured token was evaluated from a client that has an IP
C7_Witness ==
  \E i \in Done :
    /\ IsCheck(i) /\ ~Failed(i)
    /\ hist[i].frame.req.apiKey \in DOMAIN cfg.tokens
    /\ hist[i].frame.ip # EmptyStr
    /\ hist[i].result.Limit # cfg.ip.limit

----------------------------------------------------------------------------
(* C8: a token that is not in the token profile set is evaluated with the  *)
(* limit, window and penalty of the IP default profile, the verdict's      *)
(* Limit is the IP default limit, and the storage key is token:<id>.       *)
C8_UnknownTokenFallback ==
  \A i \in Done :
    ( /\ IsCheck(i)
      /\ hist[i].frame.isToken
      /\ hist[i].frame.identifier \notin DOMAIN cfg.tokens )
    => /\ hist[i].frame.limit = cfg.ip.limit
       /\ hist[i].frame.window = cfg.ip.window
       /\ hist[i].frame.block = cfg.ip.block
       /\ hist[i].key = <<"token:">> \o hist[i].frame.identifier
       /\ ~Failed(i) => hist[i].result.Limit = cfg.ip.limit

C8_Witness ==
  \E i \in Done :
    /\ IsCheck(i) /\ ~Failed(i)
    /\ hist[i].frame.isToken
    /\ hist[i].frame.identifier \notin DOMAIN cfg.tokens

----------------------------------------------------------------------------
(* C9: fail-open.  When Check returns an error the filter calls the        *)
(* downstream handler exactly once, sets no X-RateLimit-* header and       *)
(* writes no status of its own.                                            *)
C9_FailOpen ==
  \A i \in Done :
    (IsCheck(i) /\ hist[i].result.err) =>
      /\ hist[i].resp.next = 1
      /\ ~hist[i].resp.headers.set
      /\ hist[i].resp.status = 0

\* a store command failed after the request had been recorded in the window
C9_Witness ==
  \E i \in Done :
    IsCheck(i) /\ hist[i].result.err /\ "zadd" \in hist[i].frame.wrote

----------------------------------------------------------------------------
(* C10: a denied request is answered 429 by the filter and never reaches   *)
(* the downstream handler; an admitted request reaches it exactly once.    *)
C10_DenialShortCircuit ==
  \A i \in Done :
    /\ Denied(i) => hist[i].resp.status = 429 /\ hist[i].resp.next = 0
    /\ Admitted(i) => hist[i].resp.status = 0 /\ hist[i].resp.next = 1

C10_Witness ==
  /\ \E i \in Done : Denied(i) /\ hist[i].path = "limit"
  /\ \E i \in Done : Denied(i) /\ hist[i].path = "blocked"
  /\ \E i \in Done : Admitted(i)

----------------------------------------------------------------------------
(* C11: an admitted call that counted c entries in the pruned window       *)
(* returns remaining = max(0, limit - c - 1); and in a serial burst of one *)
(* identifier into an empty window, inside one window, admission number k  *)
(* (k = 1..limit) returns remaining = limit - k.                           *)
C11_RemainingFormula ==
  /\ \A i \in Done :
       Admitted(i) =>
         hist[i].verdict.remaining =
           IF hist[i].frame.limit - hist[i].frame.count - 1 < 0 THEN 0
           ELSE hist[i].frame.limit - hist[i].frame.count - 1
  /\ OneKeyLoad =>
       \A k \in Done :
         ( /\ \A j \in 1..k : Admitted(j)
           /\ k <= hist[1].frame.limit
           /\ hist[k].now - hist[1].now < hist[1].frame.window )
         => hist[k].verdict.remaining = hist[1].frame.limit - k

----------------------------------------------------------------------------
(* C12: every verdict of Allow has 0 <= remaining <= limit, and a denied   *)
(* verdict, by the block key or at the limit test, has remaining = 0.      *)
C12_RemainingRange ==
  \A i \in Done :
    (IsCheck(i) /\ ~hist[i].verdict.err) =>
      /\ 0 <= hist[i].verdict.remaining
      /\ hist[i].verdict.remaining <= hist[i].frame.limit
      /\ Denied(i) => hist[i].verdict.remaining = 0

\* a denial by the block key, and a denial at the limit test that counted
\* more than limit entries
C12_Witness ==
  /\ \E i \in Done : Denied(i) /\ hist[i].path = "blocked"
  /\ \E i \in Done : Denied(i) /\ hist[i].path = "limit"
                       /\ hist[i].frame.count > hist[i].frame.limit

----------------------------------------------------------------------------
(* C13: in every verdict of Allow, admitted, denied at the limit test or   *)
(* denied by the block key, reset_at >= now, the instant the call captured *)
(* at entry, also with other handlers and key expiry interleaved.          *)
C13_ResetNotBeforeNow ==
  \A i \in Done :
    (IsCheck(i) /\ ~hist[i].verdict.err) =>
      TimeLeq(At(hist[i].now, 0), hist[i].verdict.reset)

----------------------------------------------------------------------------
(* C14: every denied verdict has reset_at - now <= penalty: a denial at    *)
(* the limit test returns reset_at = now + penalty, a denial by the block  *)
(* key returns now + the TTL left on the key, at most the penalty.         *)
C14_DeniedResetWithinPenalty ==
  \A i \in Done :
    Denied(i) =>
      /\ TimeLeq(hist[i].verdict.reset, At(hist[i].now + hist[i].frame.block, 0))
      /\ hist[i].path = "limit" =>
           hist[i].verdict.reset = At(hist[i].now + hist[i].frame.block, 0)

----------------------------------------------------------------------------
(* C15: Reset is idempotent.  Whatever keys of the identifier exist, a     *)
(* Reset returns without error and leaves neither the window key nor the   *)
(* block key, and so does a second Reset right after it.                   *)
C15_ResetIdempotent ==
  \A i \in Done :
    hist[i].op = "reset" => ~hist[i].err /\ hist[i].left = {}

\* two consecutive resets of an identifier that had both keys
C15_Witness ==
  \E i \in Done :
    /\ i + 1 \in Done
    /\ hist[i].op = "reset" /\ hist[i + 1].op = "reset"
    /\ hist[i].pair = hist[i + 1].pair
    /\ hist[i].had = KeysOf(hist[i].pair)
    /\ hist[i + 1].had = {}

----------------------------------------------------------------------------
(* C16: after a Reset of an identifier that returned without error, the    *)
(* next Allow call of that identifier under serial load is admitted with   *)
(* remaining = limit - 1, whatever was stored for it before the Reset.     *)
C16_AdmittedAfterReset ==
  \A j, i \in Done :
    ( /\ j < i
      /\ hist[j].op = "reset" /\ ~hist[j].err
      /\ IsCheck(i) /\ hist[i].key = hist[j].key
      /\ \A m \in Done : (j < m /\ m < i) => hist[m].key # hist[j].key
      /\ \A m \in Done : m < i => ~Failed(m)
      /\ hist[i].path # "error" )
    => Admitted(i) /\ hist[i].verdict.remaining = hist[i].frame.limit - 1

----------------------------------------------------------------------------
(* C17: the IP the filter extracts is the trimmed first comma-separated    *)
(* element of X-Forwarded-For when that element is not blank, else the     *)
(* X-Real-IP value when not empty, else the peer address without its port; *)
(* a request without API_KEY is evaluated under that identifier.           *)

\* p is the part of s before its first comma, all of s when it has none
IsFirstElement(p, s) ==
  /\ Len(p) <= Len(s)
  /\ p = SubSeq(s, 1, Len(p))
  /\ \A k \in 1..Len(p) : p[k] # ","
  /\ Len(p) = Len(s) \/ s[Len(p) + 1] = ","

\* x is p without its leading and trailing blanks
IsTrimmed(x, p) ==
  \E a, b \in 0..Len(p) :
    /\ a + b <= Len(p)
    /\ x = SubSeq(p, a + 1, Len(p) - b)
    /\ \A k \in 1..a : p[k] = " "
    /\ \A k \in (Len(p) - b + 1)..Len(p) : p[k] = " "
    /\ x = <<>> \/ (x[1] # " " /\ x[Len(x)] # " ")

\* h is addr up to its last colon, all of addr when it has none
IsPortStripped(h, addr) ==
  \/ (\A k \in 1..Len(addr) : addr[k] # ":") /\ h = addr
  \/ \E n \in 1..Len(addr) :
       /\ addr[n] = ":"
       /\ \A k \in (n + 1)..Len(addr) : addr[k] # ":"
       /\ h = SubSeq(addr, 1, n - 1)

C17_ExtractIPPrecedence ==
  \A i \in Done :
    IsCheck(i) =>
      /\ hist[i].frame.req.apiKey = <<>> =>
           hist[i].frame.identifier = hist[i].frame.ip /\ ~hist[i].frame.isToken
      /\ \E n, b \in 0..Len(hist[i].frame.req.xff),
            a \in 1..(Len(hist[i].frame.req.xff) + 1) :
           /\ IsFirstElement(SubSeq(hist[i].frame.req.xff, 1, n), hist[i].frame.req.xff)
           /\ a <= b + 1
           /\ IsTrimmed(SubSeq(hist[i].frame.req.xff, a, b),
                        SubSeq(hist[i].frame.req.xff, 1, n))
           /\ IF SubSeq(hist[i].frame.req.xff, a, b) # <<>>
              THEN hist[i].frame.ip = SubSeq(hist[i].frame.req.xff, a, b)
              ELSE IF hist[i].frame.req.xri # <<>>
              THEN hist[i].frame.ip = hist[i].frame.req.xri
              ELSE IsPortStripped(hist[i].frame.ip, hist[i].frame.req.remoteAddr)

\* a request whose X-Forwarded-For has a blank first element and a second
\* one, and which carries X-Real-IP, was evaluated under the X-Real-IP value
C17_Witness ==
  \E i \in Done :
    /\ IsCheck(i) /\ Admitted(i)
    /\ hist[i].frame.req.xff = <<" ", ",", "c">>
    /\ hist[i].frame.req.xri = <<"d">>
    /\ hist[i].key = <<"ip:", "d">>

----------------------------------------------------------------------------
(* C18: every request for which Check returned a verdict is answered with  *)
(* X-RateLimit-Limit = the limit of the resolved profile,                  *)
(* X-RateLimit-Remaining = the verdict's remaining, and X-RateLimit-Reset  *)
(* = the verdict's reset_at; stated for runs without store errors.         *)

\* the limit of the profile the configuration holds for a request
EffectiveLimit(i) ==
  IF hist[i].frame.req.apiKey # <<>> /\ hist[i].frame.req.apiKey \in DOMAIN cfg.tokens
  THEN cfg.tokens[hist[i].frame.req.apiKey].limit
  ELSE cfg.ip.limit

----------------------------------------------------------------------------
----------------------------------------------------------------------------
(* C20: under serial load without Reset and without store errors, from one *)
(* admitted verdict of an identifier to its next one, with no entry of the *)
(* window aged out in between, remaining does not increase: it goes down   *)
(* by one, or stays at 0.                                                  *)

\* calls i < j are two admitted calls of one key with no operation on that
\* key in between, and what call i counted is still inside the window at j
NextAdmission(i, j) ==
  /\ i < j
  /\ Admitted(i) /\ Admitted(j)
  /\ hist[i].key = hist[j].key
  /\ \A m \in Done : (i < m /\ m < j) => hist[m].key # hist[i].key
  /\ \A m \in 1..j : hist[m].op # "reset" /\ ~Failed(m)
  /\ \A a \in 1..i :
       (Admitted(a) /\ hist[a].key = hist[i].key
          /\ hist[a].now > hist[i].now - hist[i].frame.window)
       => hist[a].now > hist[j].now - hist[j].frame.window

C20_RemainingMonotone ==
  \A i, j \in Done :
    NextAdmission(i, j) =>
      /\ hist[j].verdict.remaining <= hist[i].verdict.remaining
      /\ hist[j].verdict.remaining =
           IF hist[i].verdict.remaining = 0 THEN 0
           ELSE hist[i].verdict.remaining - 1

----------------------------------------------------------------------------
(* C21: also with evaluators in flight together, no call records its       *)
(* request in the window while the block key of its identifier exists, and *)
(* no call returns an admitted verdict while that key exists: a call that  *)
(* passed its own EXISTS before another call wrote the key included.       *)
C21_BlockKeyFencesAdmission ==
  \A i \in Done :
    IsCheck(i) =>
      /\ "zadd" \in hist[i].frame.wrote => ~hist[i].frame.blockAtAdd
      /\ Admitted(i) => hist[i].frame.blockAtReturn.type = "none"

----------------------------------------------------------------------------
(* C22: when an admitted call returns, every member t of the window set of *)
(* its key lies in (now - window, now], now being the instant the call     *)
(* read: also when calls that read their own instant earlier or later      *)
(* write to the set in between.                                            *)
C22_WindowWithinBounds ==
  \A i \in Done :
    Admitted(i) =>
      \A t \in hist[i].frame.winAtReturn.members :
        hist[i].now - hist[i].frame.window < t /\ t <= hist[i].now

----------------------------------------------------------------------------
(* C23: whenever the window key of an identifier exists it carries an      *)
(* expiry, and when an admitted call has run its EXPIRE the expiry of the  *)
(* key is window + 60 s from then: no sequence of operations leaves a      *)
(* window key without a TTL.                                               *)
C23_WindowKeyHasTTL ==
  /\ \A r \in Requests :
       store[createKey(identifierOf(r), isTokenOf(r))].type = "zset" =>
         store[createKey(identifierOf(r), isTokenOf(r))].exp # NoExp
  /\ \A i \in Done :
       Admitted(i) =>
         /\ hist[i].frame.winAtExpire.type = "zset"
         /\ hist[i].frame.winAtExpire.exp =
              hist[i].frame.expireAt + hist[i].frame.window + Minute

----------------------------------------------------------------------------
(* C24: the keys reap themselves, for every profile, a penalty of 0        *)
(* included: when no call is in flight and no store command has failed,    *)
(* every key in the store carries an expiry, so that with no further       *)
(* request the store removes the window key and the block key of every     *)
(* identifier without a Reset.                                             *)
C24_KeysExpire ==
  (AllIdle /\ \A i \in Done : IsCheck(i) /\ hist[i].path # "error") =>
    \A k \in DOMAIN store : store[k].type # "none" => store[k].exp # NoExp

----------------------------------------------------------------------------
(* C25: a call that finds the block key present writes nothing to the      *)
(* store: neither its EXISTS, which finds the key, nor its TTL, after      *)
(* which it returns, changes any key.                                      *)
C25_BlockedCallWritesNothing ==
  [][\A e \in Evals :
       (ev'[e] # ev[e] /\ (ev'[e].pc = "ttl" \/ ev[e].pc = "ttl"))
         => store' = store]_vars

\* a blocked call has returned while the store held the window set and the
\* block key of its identifier
C25_Witness ==
  \E i \in Done :
    /\ IsCheck(i) /\ hist[i].path = "blocked"
    /\ hist[i].frame.wrote = {}
    /\ hist[i].frame.winAtReturn.type = "zset"
    /\ hist[i].frame.blockAtReturn.type = "string"

----------------------------------------------------------------------------
(* C26: with no store error so far, a call denied at the limit test has written the block key with    *)
(* value 1 and a TTL of penalty, returns (false, 0, now + penalty), and    *)
(* has not added its request to the window: the window set it leaves is    *)
(* the set it found, less the entries it pruned.                           *)
C26_LimitDenial ==
  \A i \in Done :
    (IsCheck(i) /\ hist[i].path = "limit" /\ \A m \in 1..i : ~Failed(m)) =>
      /\ hist[i].frame.blockAtReturn.type = "string"
      /\ hist[i].frame.blockAtReturn.exp = hist[i].frame.setAt + hist[i].frame.block
      /\ hist[i].verdict =
           Verdict(FALSE, 0, At(hist[i].now + hist[i].frame.block, 0))
      /\ "zadd" \notin hist[i].frame.wrote
      /\ hist[i].frame.winAtReturn.members =
           { m \in hist[i].frame.winAtEntry.members :
               m > hist[i].now - hist[i].frame.window }

----------------------------------------------------------------------------
(* C27: every Allow call makes between one and three round-trips to the    *)
(* store, a pipeline being one, on every path: blocked, denied at the      *)
(* limit, admitted into an empty window, admitted into a non-empty window. *)
C27_AtMostThreeTrips ==
  \A i \in Done :
    IsCheck(i) => 1 <= hist[i].frame.trips /\ hist[i].frame.trips <= 3

\* C27 as it holds: between one and four round-trips; two on the blocked
\* path, three when denied at the limit or admitted into an empty window,
\* four when admitted into a non-empty window
C27_AtMostFourTrips ==
  \A i \in Done :
    IsCheck(i) =>
      /\ 1 <= hist[i].frame.trips /\ hist[i].frame.trips <= 4
      /\ hist[i].path = "blocked" => hist[i].frame.trips = 2
      /\ hist[i].path = "limit" => hist[i].frame.trips = 3
      /\ (hist[i].path = "admit" /\ hist[i].frame.count = 0)
           => hist[i].frame.trips = 3
      /\ (hist[i].path = "admit" /\ hist[i].frame.count > 0)
           => hist[i].frame.trips = 4

\* a call admitted into a non-empty window has read the smallest score
C27_Witness ==
  \E i \in Done :
    /\ Admitted(i) /\ hist[i].frame.count > 0 /\ ~hist[i].frame.dropped
    /\ hist[i].frame.trips = 4
    /\ hist[i].frame.wrote = {"zrem", "zadd", "expire"}

----------------------------------------------------------------------------
(* C30: every store error surfaces: a call in which a store command failed *)
(* (EXISTS, TTL, the prune/count batch, the SET of the block key, the      *)
(* add/expire batch, the read of the smallest score) returns an error and  *)
(* no verdict.                                                             *)
C30_StoreErrorsSurface ==
  \A i \in Done :
    (IsCheck(i) /\ ( \/ hist[i].path \in {"error", "wrongtype"}
                     \/ hist[i].frame.perr
                     \/ hist[i].frame.dropped ))
      => hist[i].verdict.err /\ hist[i].result.err

----------------------------------------------------------------------------
(* C28: an admitted call that counted c entries returns reset_at =         *)
(* s + window when c > 0, s being the smallest score of the window set,    *)
(* and reset_at = now + window when c = 0.                                 *)
C28_ResetAtOfAdmitted ==
  \A i \in Done :
    Admitted(i) =>
      IF hist[i].frame.count > 0
      THEN /\ hist[i].frame.winAtReturn.type = "zset"
           /\ hist[i].frame.winAtReturn.members # {}
           /\ hist[i].verdict.reset =
                At(Min(hist[i].frame.winAtReturn.members) + hist[i].frame.window, 0)
      ELSE hist[i].verdict.reset = At(hist[i].now + hist[i].frame.window, 0)

----------------------------------------------------------------------------
(* C29: under serial load of one identifier, the reset_at of successive    *)
(* admitted verdicts does not decrease as long as no entry has been        *)
(* pruned: of two admitted calls, the later one, whose window set still    *)
(* holds every entry the earlier one left, returns a reset_at no earlier.  *)
C29_ResetAtMonotone ==
  (\A m, n \in Done : IsCheck(m) /\ hist[m].key = hist[n].key) =>
    \A i, j \in Done :
      ( /\ i < j /\ Admitted(i) /\ Admitted(j)
        /\ hist[i].frame.winAtReturn.members \subseteq
             hist[j].frame.winAtReturn.members )
        => TimeLeq(hist[i].verdict.reset, hist[j].verdict.reset)

----------------------------------------------------------------------------
(* C31: timestamp collisions are harmless.  Under serial load of one       *)
(* identifier without store errors, when two admitted calls read the same  *)
(* instant the second ZADD overwrites the member of the first (the set     *)
(* holds that instant once), and the identifier still obtains at most      *)
(* limit admissions within one window.                                     *)
C31_CollisionsHarmless ==
  OneKeyLoad =>
    \A i, j \in Done :
      (i < j /\ Admitted(i) /\ Admitted(j) /\ hist[i].now = hist[j].now) =>
        /\ hist[j].frame.winAtReturn.type = "zset"
        /\ hist[j].now \in hist[j].frame.winAtReturn.members
        /\ Cardinality(hist[j].frame.winAtReturn.members)
             = Cardinality(hist[i].frame.winAtReturn.members)
        /\ \A n \in Done :
             (n >= j /\ Admitted(n)) =>
               Cardinality(AdmittedIn(hist[n].key,
                                      hist[n].now - hist[n].frame.window,
                                      hist[n].now)) <= hist[n].frame.limit

----------------------------------------------------------------------------
(* C32: each Check calls Allow once, with the key "token:" + identifier    *)
(* when is_token is true and "ip:" + identifier otherwise: the call sends  *)
(* one EXISTS, first, and every command of it addresses that key or that   *)
(* key + ":block".  The result Check returns carries the identifier and    *)
(* the class as passed in and the limit of the resolved profile.           *)
C32_CheckCallsAllowOnce ==
  \A i \in Done :
    IsCheck(i) =>
      LET f == hist[i].frame
          id == IF f.req.apiKey # EmptyStr THEN f.req.apiKey ELSE f.ip
          tok == f.req.apiKey # EmptyStr
          k == IF tok THEN <<"token:">> \o id ELSE <<"ip:">> \o id
      IN
        /\ hist[i].key = k
        /\ Len(f.cmds) >= 1
        /\ f.cmds[1] = [cmd |-> "exists", key |-> k \o <<":block">>]
        /\ \A n \in 2..Len(f.cmds) :
             f.cmds[n].cmd # "exists" /\ f.cmds[n].key \in {k, k \o <<":block">>}
        /\ ~hist[i].result.err =>
             /\ hist[i].result.Identifier = id
             /\ hist[i].result.IsToken = tok
             /\ hist[i].result.Limit =
                  IF tok /\ id \in DOMAIN cfg.tokens
                  THEN cfg.tokens[id].limit ELSE cfg.ip.limit

\* a token request and an IP request have both got a result
C32_Witness ==
  \E i, j \in Done :
    /\ IsCheck(i) /\ ~hist[i].result.err /\ hist[i].result.IsToken
    /\ hist[i].key[1] = "token:"
    /\ IsCheck(j) /\ ~hist[j].result.err /\ ~hist[j].result.IsToken
    /\ hist[j].key[1] = "ip:"

----------------------------------------------------------------------------
(* C33: no partial state needs unwinding.  When a call is aborted by a     *)
(* store error at any step, what it wrote before stands and corrects       *)
(* itself: the window key it wrote to, if it is left in the store, carries *)
(* an expiry and so is removed by the store without intervention.          *)
C33_AbortLeavesExpiringKeys ==
  \A i \in Done :
    (IsCheck(i) /\ hist[i].verdict.err /\ hist[i].frame.wrote # {}) =>
      /\ hist[i].frame.winAtReturn.type # "none"
           => hist[i].frame.winAtReturn.exp # NoExp
      /\ ("set" \in hist[i].frame.wrote /\ hist[i].frame.blockAtReturn.type # "none")
           => hist[i].frame.blockAtReturn.exp # NoExp

----------------------------------------------------------------------------
(* C34: the key spaces are disjoint.  For two distinct (identifier, class) *)
(* pairs the filter can produce, the keys {base, base + ":block"} of one   *)
(* are disjoint from those of the other: no identifier's window key is     *)
(* another identifier's block key.                                         *)
C34_KeySpacesDisjoint ==
  \A i, j \in Done :
    ( /\ IsCheck(i) /\ IsCheck(j)
      /\ <<hist[i].frame.identifier, hist[i].frame.isToken>>
           # <<hist[j].frame.identifier, hist[j].frame.isToken>> )
      => KeysOf(<<hist[i].frame.identifier, hist[i].frame.isToken>>)
           \cap KeysOf(<<hist[j].frame.identifier, hist[j].frame.isToken>>) = {}

----------------------------------------------------------------------------
(* C35: a request with a non-empty API_KEY is evaluated against the token  *)
(* keys only: no command of it addresses the window key or the block key   *)
(* of its client address.  While the block key of its IP exists, a request *)
(* with an API key, configured or not, whose own bucket holds fewer        *)
(* entries than its limit and is under no penalty, is admitted.            *)
C35_TokenRequestIgnoresIP ==
  \A i \in Done :
    (IsCheck(i) /\ hist[i].frame.req.apiKey # EmptyStr) =>
      /\ \A n \in 1..Len(hist[i].frame.cmds) :
           hist[i].frame.cmds[n].key \notin KeysOf(<<hist[i].frame.ip, FALSE>>)
      /\ ( /\ ~hist[i].verdict.err
           /\ ~hist[i].frame.blockAtEntry
           /\ hist[i].frame.liveAtEntry < hist[i].frame.limit )
           => hist[i].verdict.allowed

\* a request with an API key has been admitted while the block key of its
\* client address was in the store
C35_Witness ==
  \E i \in Done :
    /\ Admitted(i) /\ hist[i].frame.req.apiKey # EmptyStr
    /\ store[blockKeyOf(createKey(hist[i].frame.ip, FALSE))].type = "string"
    /\ \E j \in 1..(i - 1) :
         Denied(j) /\ ~hist[j].frame.isToken /\ hist[j].frame.identifier = hist[i].frame.ip
    /\ hist[i].frame.req.apiKey \notin DOMAIN cfg.tokens

----------------------------------------------------------------------------
(* C36: the penalty has a fixed length.  While the block key of an         *)
(* identifier exists no call writes it again: no step changes the expiry   *)
(* of a block key that stays in the store, so the key expires penalty      *)
(* after the write that created it, also when several calls reach the      *)
(* limit test together.                                                    *)
C36_PenaltyNotRestarted ==
  [][\A r \in Requests :
       LET k == blockKeyOf(createKey(identifierOf(r), isTokenOf(r))) IN
         (store[k].type = "string" /\ store'[k].type = "string")
           => store'[k].exp = store[k].exp]_vars

----------------------------------------------------------------------------
(* C37: the window set of an identifier grows only through calls that      *)
(* return an admitted verdict: an admitted call has run exactly one ZADD,  *)
(* of its own instant, and a call that returns a denied verdict or an      *)
(* error has added no member.                                              *)
C37_OnlyAdmittedCallsAdd ==
  \A i \in Done :
    IsCheck(i) =>
      LET adds == { n \in 1..Len(hist[i].frame.cmds) :
                      hist[i].frame.cmds[n].cmd = "zadd" }
      IN
        /\ Admitted(i) =>
             /\ Cardinality(adds) = 1
             /\ "zadd" \in hist[i].frame.wrote
        /\ ~Admitted(i) => "zadd" \notin hist[i].frame.wrote

\* C37 as it holds: an admitted call has run exactly one ZADD, a denied
\* call none; a call that returns an error has added its member only when
\* the error came after its ZADD, in the add/expire batch
C37_DeniedCallsAddNothing ==
  \A i \in Done :
    IsCheck(i) =>
      LET c == hist[i].frame.cmds
          adds == { n \in 1..Len(c) : c[n].cmd = "zadd" }
      IN
        /\ Admitted(i) =>
             /\ Cardinality(adds) = 1
             /\ "zadd" \in hist[i].frame.wrote
        /\ Denied(i) => adds = {} /\ "zadd" \notin hist[i].frame.wrote
        /\ (Failed(i) /\ "zadd" \in hist[i].frame.wrote) =>
             /\ Cardinality(adds) = 1
             /\ c[Len(c)].cmd = "expire"
             /\ hist[i].now \in hist[i].frame.winAtReturn.members

\* a call has been admitted, a call has been denied at the limit, and a
\* call has returned an error after its ZADD
C37_Witness ==
  /\ \E i \in Done : Admitted(i) /\ "zadd" \in hist[i].frame.wrote
  /\ \E i \in Done : Denied(i) /\ hist[i].path = "limit"
  /\ \E i \in Done : IsCheck(i) /\ Failed(i) /\ "zadd" \in hist[i].frame.wrote

----------------------------------------------------------------------------
(* C38: a block key is written only by a call that counted at least limit  *)
(* entries in the pruned window: in every reachable state an identifier    *)
(* that has never had limit admissions inside one window has never had a   *)
(* block key.                                                              *)
C38_PenaltyOnlyAfterLimit ==
  /\ \A i \in Done :
       (IsCheck(i) /\ "set" \in hist[i].frame.wrote)
         => hist[i].frame.count >= hist[i].frame.limit
  /\ \A r \in Requests :
       LET k == createKey(identifierOf(r), isTokenOf(r))
           l == resolveProfile(cfg, identifierOf(r), isTokenOf(r)).limit
           w == resolveProfile(cfg, identifierOf(r), isTokenOf(r)).window
       IN
         store[blockKeyOf(k)].type # "none" =>
           \E t \in 0..clock : Cardinality(AdmittedIn(k, t - w, t)) >= l

----------------------------------------------------------------------------
(* C39: with penalty < window, a request that comes after the block key    *)
(* has expired while the window still holds at least limit live entries is *)
(* denied again and writes a fresh block key; the identifier is admitted   *)
(* only by a call that finds no block key and fewer than limit live        *)
(* entries.                                                                *)
C39_DeniedAgainAfterPenalty ==
  \A i \in Done :
    (IsCheck(i) /\ ~hist[i].verdict.err /\ hist[i].frame.block < hist[i].frame.window) =>
      /\ (~hist[i].frame.blockAtEntry /\ hist[i].frame.liveAtEntry >= hist[i].frame.limit)
           => /\ Denied(i) /\ hist[i].path = "limit"
              /\ "set" \in hist[i].frame.wrote
              /\ hist[i].frame.blockAtReturn.type = "string"
              /\ hist[i].frame.block > 0 =>
                   hist[i].frame.blockAtReturn.exp = hist[i].now + hist[i].frame.block
      /\ Admitted(i) =>
           ~hist[i].frame.blockAtEntry /\ hist[i].frame.liveAtEntry < hist[i].frame.limit

\* a call was denied at the limit, its block key has expired, and a later
\* call within the window is denied at the limit again and writes the key
C39_Witness ==
  \E j, i \in Done :
    /\ j < i /\ IsCheck(j) /\ IsCheck(i) /\ hist[j].key = hist[i].key
    /\ hist[j].path = "limit" /\ hist[i].path = "limit"
    /\ 0 < hist[j].frame.block /\ hist[j].frame.block < hist[j].frame.window
    /\ hist[j].frame.setAt + hist[j].frame.block <= hist[i].now
    /\ ~hist[i].frame.blockAtEntry
    /\ hist[i].frame.liveAtEntry >= hist[i].frame.limit
    /\ hist[i].frame.blockAtReturn.exp = hist[i].now + hist[i].frame.block

====
